---- MODULE Spec2Model ----
(***************************************************************************)
(* Model of the bulwark community ruleset: four request-inspection plugins *)
(* (size-limit, long-content-type, numeric-host, regex).  Every handler of *)
(* a plugin is one action; the pure helpers of the plugins are operators.  *)
(*                                                                         *)
(* Conventions                                                             *)
(*   Option<T>   a sequence of length at most one: <<>> is None, <<v>> is  *)
(*               Some(v).                                                  *)
(*   f64         an integer number of millionths (0.15 is 150000).         *)
(*   Value       a serde_json value, a record with the field "tag".        *)
(*   str         a sequence of one-character strings.                      *)
(*   Vec<u8>     a sequence of integers in 0..255.                         *)
(***************************************************************************)
EXTENDS Integers, Sequences, FiniteSets, TLC

VARIABLES
    plugin,      \* the plugin the host has loaded
    request,     \* the request snapshot get_request() returns
    config,      \* the configuration get_config_value(key) reads
    pc,          \* "idle" before the handler runs, "done" after it returned
    phase,       \* the handler that ran: "none", "request", "request_body"
    result,      \* what the handler returned: "none", "Ok", "Err"
    decisions,   \* the decisions written during the invocation, in order
    tags,        \* the tags appended during the invocation, in order
    measured     \* the measurement the handler computed (plugin specific)

vars == <<plugin, request, config, pc, phase, result, decisions, tags, measured>>

----------------------------------------------------------------------------
(* Options and f64 *)

None == <<>>
Some(v) == <<v>>
IsSome(o) == Len(o) = 1
Unwrap(o) == o[1]
UnwrapOr(o, d) == IF IsSome(o) THEN o[1] ELSE d

Micro == 1000 * 1000

Min(a, b) == IF a < b THEN a ELSE b
Max(a, b) == IF a > b THEN a ELSE b

----------------------------------------------------------------------------
(* serde_json::Value, as far as the plugins read it *)

VNull == [tag |-> "Null"]
VPosInt(n) == [tag |-> "PosInt", n |-> n]
VNegInt(n) == [tag |-> "NegInt", n |-> n]
VFloat(micro) == [tag |-> "Float", n |-> micro]
VString(s) == [tag |-> "String", s |-> s]
VArray(items) == [tag |-> "Array", items |-> items]
VObject(entries) == [tag |-> "Object", entries |-> entries]

\* Value::as_u64: Some only for a number stored as an unsigned integer.
as_u64(value) == IF value.tag = "PosInt" THEN Some(value.n) ELSE None

\* Value::as_f64: Some for every number, converted to f64.
as_f64(value) ==
    IF value.tag \in {"PosInt", "NegInt"} THEN Some(value.n * Micro)
    ELSE IF value.tag = "Float" THEN Some(value.n)
    ELSE None

\* Option::and_then(|value| value.as_u64()) and its f64 twin.
and_then_as_u64(o) == IF IsSome(o) THEN as_u64(Unwrap(o)) ELSE None
and_then_as_f64(o) == IF IsSome(o) THEN as_f64(Unwrap(o)) ELSE None

ConfigKeys ==
    {"soft_limit", "hard_limit", "soft_weight", "hard_weight",
     "location", "patterns", "restrict", "accept"}

NoConfig == [k \in ConfigKeys |-> None]

get_config_value(key) == config[key]

----------------------------------------------------------------------------
(* Requests *)

\* HeaderMap::get: the first value stored under the name.
RECURSIVE HeaderGetFrom(_, _, _)
HeaderGetFrom(headers, name, i) ==
    IF i > Len(headers) THEN None
    ELSE IF headers[i].name = name THEN Some(headers[i].value)
    ELSE HeaderGetFrom(headers, name, i + 1)

HeaderGet(req, name) == HeaderGetFrom(req.headers, name, 1)

Header(name, value) == [name |-> name, value |-> value]

EmptyBody == [received |-> FALSE, size |-> 0, content |-> <<>>]

EmptyRequest ==
    [uri |-> [host |-> None, path |-> <<>>, query |-> None],
     headers |-> <<>>,
     body |-> EmptyBody]

\* The host interface: set_restricted(score) and append_tags(tags).
Restricted(score) == [direction |-> "Restrict", score |-> score]

Digit == {"0", "1", "2", "3", "4", "5", "6", "7", "8", "9"}

DigitValue(c) ==
    CASE c = "0" -> 0 [] c = "1" -> 1 [] c = "2" -> 2 [] c = "3" -> 3
      [] c = "4" -> 4 [] c = "5" -> 5 [] c = "6" -> 6 [] c = "7" -> 7
      [] c = "8" -> 8 [] c = "9" -> 9

\* str::parse::<u64>: an optional "+", then one or more decimal digits, and a
\* value that fits 64 bits; anything else is an error (None after .ok()).
\* The fit is decided on the digits (2^64 - 1 has the 20 digits of U64MaxDigits),
\* so that the value is computed only for numerals that fit.
U64MaxDigits ==
    <<"1", "8", "4", "4", "6", "7", "4", "4", "0", "7", "3", "7", "0", "9",
      "5", "5", "1", "6", "1", "5">>

RECURSIVE StripZeros(_)
StripZeros(s) ==
    IF Len(s) > 1 /\ s[1] = "0" THEN StripZeros(Tail(s)) ELSE s

\* a > b for two digit strings of the same length
RECURSIVE DigitsGreater(_, _, _)
DigitsGreater(a, b, i) ==
    IF i > Len(a) THEN FALSE
    ELSE IF DigitValue(a[i]) # DigitValue(b[i])
        THEN DigitValue(a[i]) > DigitValue(b[i])
    ELSE DigitsGreater(a, b, i + 1)

FitsU64(digits) ==
    LET d == StripZeros(digits)
    IN  \/ Len(d) < Len(U64MaxDigits)
        \/ Len(d) = Len(U64MaxDigits) /\ ~DigitsGreater(d, U64MaxDigits, 1)

RECURSIVE DigitsValue(_, _, _)
DigitsValue(s, i, acc) ==
    IF i > Len(s) THEN acc
    ELSE DigitsValue(s, i + 1, acc * 10 + DigitValue(s[i]))

parse_u64(s) ==
    LET digits == IF Len(s) > 0 /\ s[1] = "+" THEN Tail(s) ELSE s
    IN  IF Len(digits) = 0 THEN None
        ELSE IF \E i \in 1..Len(digits) : digits[i] \notin Digit THEN None
        ELSE IF ~FitsU64(digits) THEN None
        ELSE Some(DigitsValue(digits, 1, 0))

\* HeaderValue::to_str: Ok only when every byte is visible ASCII (or a tab).
Opaque == "\\x80"
to_str(hv) == IF \E i \in 1..Len(hv) : hv[i] = Opaque THEN None ELSE Some(hv)

----------------------------------------------------------------------------
(* rules/size-limit *)

DEFAULT_SOFT_LIMIT == 15 * 1048576
DEFAULT_HARD_LIMIT == 50 * 1048576
DEFAULT_SOFT_WEIGHT == 150000
DEFAULT_HARD_WEIGHT == 1000000

\* body_limit comparing with >= instead of >.
body_limit_inclusive(soft_limit, hard_limit, size) ==
    LET soft == UnwrapOr(and_then_as_u64(soft_limit), DEFAULT_SOFT_LIMIT)
        hard == UnwrapOr(and_then_as_u64(hard_limit), DEFAULT_HARD_LIMIT)
    IN  IF size >= hard THEN "HardLimit"
        ELSE IF size >= soft THEN "SoftLimit"
        ELSE "Normal"

body_limit(soft_limit, hard_limit, size) ==
    LET soft == UnwrapOr(and_then_as_u64(soft_limit), DEFAULT_SOFT_LIMIT)
        hard == UnwrapOr(and_then_as_u64(hard_limit), DEFAULT_HARD_LIMIT)
    IN  IF size > hard THEN "HardLimit"
        ELSE IF size > soft THEN "SoftLimit"
        ELSE "Normal"

weight_limit(soft_weight, hard_weight, limit) ==
    IF limit = "HardLimit"
        THEN UnwrapOr(and_then_as_f64(hard_weight), DEFAULT_HARD_WEIGHT)
    ELSE IF limit = "SoftLimit"
        THEN UnwrapOr(and_then_as_f64(soft_weight), DEFAULT_SOFT_WEIGHT)
    ELSE 0

\* The Content-Length the request-headers handler reads: header present,
\* readable as text and parsed as u64.
SizeContentLength(req) ==
    LET hv == HeaderGet(req, "content-length")
        text == IF IsSome(hv) THEN to_str(Unwrap(hv)) ELSE None
    IN  IF IsSome(text) THEN parse_u64(Unwrap(text)) ELSE None

SizeLimit(size) ==
    body_limit(get_config_value("soft_limit"), get_config_value("hard_limit"), size)

SizeWeight(size) ==
    weight_limit(get_config_value("soft_weight"), get_config_value("hard_weight"),
                 SizeLimit(size))

\* What an invocation measured: the size it read and the tier body_limit gave.
SizeMeasure(size) == [size |-> size, limit |-> SizeLimit(size)]

SizeLimitOnRequestDecision ==
    /\ plugin = "size-limit"
    /\ pc = "idle"
    /\ LET content_length == SizeContentLength(request)
       IN  /\ decisions' = IF IsSome(content_length)
                             THEN <<Restricted(SizeWeight(Unwrap(content_length)))>>
                             ELSE <<>>
           /\ measured' = IF IsSome(content_length)
                            THEN Some(SizeMeasure(Unwrap(content_length)))
                            ELSE None
    /\ result' = "Ok"
    /\ phase' = "request"
    /\ pc' = "done"
    /\ UNCHANGED <<plugin, request, config, tags>>

SizeLimitOnRequestBodyDecision ==
    /\ plugin = "size-limit"
    /\ pc = "idle"
    /\ decisions' = <<Restricted(SizeWeight(request.body.size))>>
    /\ measured' = Some(SizeMeasure(request.body.size))
    /\ result' = "Ok"
    /\ phase' = "request_body"
    /\ pc' = "done"
    /\ UNCHANGED <<plugin, request, config, tags>>

\* Inputs of the size-limit invocations.
MaxSize == 11

SizeSamples ==
    (0..MaxSize)
    \cup {DEFAULT_SOFT_LIMIT - 1, DEFAULT_SOFT_LIMIT, DEFAULT_SOFT_LIMIT + 1,
          DEFAULT_HARD_LIMIT - 1, DEFAULT_HARD_LIMIT, DEFAULT_HARD_LIMIT + 1}

SizeLimitValues ==
    {None, Some(VPosInt(5)), Some(VPosInt(10)), Some(VNegInt(0 - 1)),
     Some(VString(<<"5">>))}

SizeWeightValues ==
    {None, Some(VFloat(300000)), Some(VString(<<"1">>))}

ContentLengthValues ==
    {None, Some(<<"5">>), Some(<<"0", "6">>), Some(<<"1", "0">>),
     Some(<<"1", "1">>), Some(<<"+", "6">>), Some(<<"-", "1">>), Some(<<>>),
     Some(<<"6", Opaque>>),
     Some(<<"1", "5", "7", "2", "8", "6", "4", "1">>),
     Some(<<"1", "8", "4", "4", "6", "7", "4", "4", "0", "7", "3", "7", "0",
            "9", "5", "5", "1", "6", "1", "6">>)}

SizeRequests ==
    {[EmptyRequest EXCEPT
        !.headers = IF IsSome(cl) THEN <<Header("content-length", Unwrap(cl))>>
                    ELSE <<>>,
        !.body = [received |-> TRUE, size |-> size, content |-> <<>>]] :
     cl \in ContentLengthValues, size \in SizeSamples}

SizeConfigs ==
    {[NoConfig EXCEPT !["soft_limit"] = sl, !["hard_limit"] = hl,
                      !["soft_weight"] = sw, !["hard_weight"] = hw] :
     sl \in SizeLimitValues, hl \in SizeLimitValues,
     sw \in SizeWeightValues, hw \in SizeWeightValues}

InitIdle ==
    /\ pc = "idle"
    /\ phase = "none"
    /\ result = "none"
    /\ decisions = <<>>
    /\ tags = <<>>
    /\ measured = None

InitSizeLimit ==
    /\ plugin = "size-limit"
    /\ request \in SizeRequests
    /\ config \in SizeConfigs
    /\ InitIdle

NextSizeLimit == SizeLimitOnRequestDecision \/ SizeLimitOnRequestBodyDecision

SpecSizeLimit == InitSizeLimit /\ [][NextSizeLimit]_vars

\* The thresholds and weights in force: the configured value, or the default
\* when the value is absent or is not a number of the kind the key takes.
SizeThreshold(key, default) ==
    IF IsSome(config[key]) /\ Unwrap(config[key]).tag = "PosInt"
        THEN Unwrap(config[key]).n
        ELSE default

SizeConfiguredWeight(key, default) ==
    IF IsSome(config[key]) /\ Unwrap(config[key]).tag = "Float"
        THEN Unwrap(config[key]).n
        ELSE default

SizeDone == plugin = "size-limit" /\ pc = "done" /\ IsSome(measured)

\* C1: for every size S and thresholds soft_limit < hard_limit (configured or
\* default), the tier is Normal exactly when S <= soft_limit, SoftLimit exactly
\* when soft_limit < S <= hard_limit and HardLimit exactly when S > hard_limit,
\* and the weight written is 0, soft_weight and hard_weight respectively.
C1_TierAndWeight ==
    SizeDone =>
        LET S == Unwrap(measured).size
            tier == Unwrap(measured).limit
            soft == SizeThreshold("soft_limit", 15 * 1048576)
            hard == SizeThreshold("hard_limit", 50 * 1048576)
            sw == SizeConfiguredWeight("soft_weight", 150000)
            hw == SizeConfiguredWeight("hard_weight", 1000000)
        IN  soft < hard =>
              /\ (tier = "Normal") <=> (S <= soft)
              /\ (tier = "SoftLimit") <=> (soft < S /\ S <= hard)
              /\ (tier = "HardLimit") <=> (S > hard)
              /\ Len(decisions) = 1
              /\ decisions[1].score =
                    (IF S <= soft THEN 0 ELSE IF S <= hard THEN sw ELSE hw)

\* A body whose size equals the configured hard limit, above the soft limit.
C1_Witness ==
    /\ SizeDone
    /\ phase = "request_body"
    /\ config["soft_limit"] = Some(VPosInt(5))
    /\ config["hard_limit"] = Some(VPosInt(10))
    /\ config["soft_weight"] = Some(VFloat(300000))
    /\ Unwrap(measured).size = 10
    /\ Unwrap(measured).limit = "SoftLimit"
    /\ decisions = <<Restricted(300000)>>

----------------------------------------------------------------------------
(* rules/long-content-type *)

MAX_LEN == 120
MAX_EXCESS == 150
MAX_SCORE == 750000
SCALE_FACTOR == MAX_SCORE \div MAX_EXCESS

\* chars_above_max without the .max(0): a short header gives a negative excess.
chars_above_max_unclamped(content_type) == Len(content_type) - MAX_LEN

chars_above_max(content_type) == Max(Len(content_type) - MAX_LEN, 0)

score_content_type(content_type) ==
    Min(chars_above_max(content_type) * SCALE_FACTOR, MAX_SCORE)

LongContentTypeHandleRequestDecision ==
    /\ plugin = "long-content-type"
    /\ pc = "idle"
    /\ LET content_type == HeaderGet(request, "content-type")
       IN  IF IsSome(content_type)
           THEN LET score == score_content_type(Unwrap(content_type))
                IN  /\ tags' = IF score > 0 THEN <<"long-content-type">> ELSE <<>>
                    /\ decisions' = <<Restricted(score)>>
                    /\ measured' = Some([len |-> Len(Unwrap(content_type)),
                                         excess |-> chars_above_max(Unwrap(content_type))])
           ELSE UNCHANGED <<tags, decisions, measured>>
    /\ result' = "Ok"
    /\ phase' = "request"
    /\ pc' = "done"
    /\ UNCHANGED <<plugin, request, config>>

\* Inputs: a Content-Type header of every length up to the bound, the length of
\* the specification's scenario, or no header; with or without another header.
MaxContentTypeLen == 280

ContentTypeLens == (0..MaxContentTypeLen) \cup {720}

ContentTypeValue(len) == [i \in 1..len |-> "a"]

ContentTypeRequests ==
    {[EmptyRequest EXCEPT !.headers = other \o <<Header("content-type", ContentTypeValue(len))>>] :
        len \in ContentTypeLens, other \in {<<>>, <<Header("accept", <<"*">>)>>}}
    \cup {EmptyRequest, [EmptyRequest EXCEPT !.headers = <<Header("accept", <<"*">>)>>]}

InitLongContentType ==
    /\ plugin = "long-content-type"
    /\ request \in ContentTypeRequests
    /\ config = NoConfig
    /\ InitIdle

NextLongContentType == LongContentTypeHandleRequestDecision

SpecLongContentType == InitLongContentType /\ [][NextLongContentType]_vars

ContentTypeDone == plugin = "long-content-type" /\ pc = "done" /\ IsSome(measured)

\* C2: for a Content-Type value of length L, chars_above_max is max(0, L - 120)
\* and the score is 0 for L <= 120, (L - 120) * 0.005 for 120 < L < 270 and
\* exactly 0.75 for every L >= 270.
C2_LengthExcessScore ==
    ContentTypeDone =>
        LET L == Unwrap(measured).len
            excess == Unwrap(measured).excess
            score == decisions[1].score
        IN  /\ Len(decisions) = 1
            /\ excess = (IF L > 120 THEN L - 120 ELSE 0)
            /\ L <= 120 => score = 0
            /\ (120 < L /\ L < 270) => score = (L - 120) * 5000
            /\ L >= 270 => score = 750000

\* The scenario of length 720 has run and was scored.
C2_Witness ==
    /\ ContentTypeDone
    /\ Unwrap(measured).len = 720
    /\ decisions = <<Restricted(750000)>>
    /\ tags = <<"long-content-type">>

----------------------------------------------------------------------------
(* The regular expressions of rules/numeric-host, as syntax trees, and the   *)
(* matching of the regex crate: Regex::find returns Some exactly when some   *)
(* substring of the text is in the language of the expression.               *)

Cls(set) == [t |-> "cls", set |-> set]
Lit(c) == Cls({c})
Cat(items) == [t |-> "cat", items |-> items]
Alt(items) == [t |-> "alt", items |-> items]
Rep(r, lo, hi) == [t |-> "rep", r |-> r, lo |-> lo, hi |-> hi]
Opt(r) == Rep(r, 0, 1)
Unbounded == 0 - 1
Bol == [t |-> "bol"]
Eol == [t |-> "eol"]
WordBoundary == [t |-> "wb"]
Epsilon == Cat(<<>>)

LowerAlpha ==
    {"a", "b", "c", "d", "e", "f", "g", "h", "i", "j", "k", "l", "m", "n", "o",
     "p", "q", "r", "s", "t", "u", "v", "w", "x", "y", "z"}
UpperAlpha ==
    {"A", "B", "C", "D", "E", "F", "G", "H", "I", "J", "K", "L", "M", "N", "O",
     "P", "Q", "R", "S", "T", "U", "V", "W", "X", "Y", "Z"}
HexDigit == Digit \cup {"a", "b", "c", "d", "e", "f", "A", "B", "C", "D", "E", "F"}
WordChar == Digit \cup LowerAlpha \cup UpperAlpha \cup {"_"}

IsWordAt(s, k) == k >= 1 /\ k <= Len(s) /\ s[k] \in WordChar

\* Ends(re, s, i): the positions j such that re matches s from position i
\* (the characters s[i+1..j]); positions run from 0 to Len(s).
RECURSIVE Ends(_, _, _), CatEnds(_, _, _, _), RepEnds(_, _, _, _, _)
Ends(re, s, i) ==
    CASE re.t = "cls" -> IF i < Len(s) /\ s[i + 1] \in re.set THEN {i + 1} ELSE {}
      [] re.t = "cat" -> CatEnds(re.items, 1, s, {i})
      [] re.t = "alt" -> UNION {Ends(re.items[k], s, i) : k \in DOMAIN re.items}
      [] re.t = "rep" -> RepEnds(re, 0, s, {i}, {})
      [] re.t = "bol" -> IF i = 0 THEN {i} ELSE {}
      [] re.t = "eol" -> IF i = Len(s) THEN {i} ELSE {}
      [] re.t = "wb" -> IF IsWordAt(s, i) # IsWordAt(s, i + 1) THEN {i} ELSE {}

CatEnds(items, k, s, from) ==
    IF k > Len(items) \/ from = {} THEN from
    ELSE CatEnds(items, k + 1, s, UNION {Ends(items[k], s, p) : p \in from})

\* from: the positions reached after n repetitions; seen: every position
\* reached after lo or more repetitions.
RepEnds(re, n, s, from, seen) ==
    LET reached == IF n >= re.lo THEN seen \cup from ELSE seen
        more == UNION {Ends(re.r, s, p) : p \in from}
    IN  IF from = {} \/ n = re.hi THEN reached
        ELSE IF n >= re.lo /\ more \subseteq reached THEN reached
        ELSE RepEnds(re, n + 1, s, more, reached)

\* Regex::find(text).is_some()
is_match(re, s) == \E i \in 0..Len(s) : Ends(re, s, i) # {}

Port == Opt(Cat(<<Lit(":"), Rep(Cls(Digit), 1, 5)>>))

\* ^((25[0-5]|(2[0-4]|1\d|[1-9]|)\d)\.?\b){4}(:[0-9]{1,5})?$
re_ipv4 ==
    Cat(<<Bol,
          Rep(Cat(<<Alt(<<Cat(<<Lit("2"), Lit("5"), Cls({"0", "1", "2", "3", "4", "5"})>>),
                          Cat(<<Alt(<<Cat(<<Lit("2"), Cls({"0", "1", "2", "3", "4"})>>),
                                      Cat(<<Lit("1"), Cls(Digit)>>),
                                      Cls(Digit \ {"0"}),
                                      Epsilon>>),
                                Cls(Digit)>>)>>),
                    Opt(Lit(".")),
                    WordBoundary>>), 4, 4),
          Port,
          Eol>>)

\* ^[0-9]{1,10}(:[0-9]{1,5})?$
re_decimal == Cat(<<Bol, Rep(Cls(Digit), 1, 10), Port, Eol>>)

\* ^0[bB][0-1]{1,32}(:[0-9]{1,5})?$
re_binary ==
    Cat(<<Bol, Lit("0"), Cls({"b", "B"}), Rep(Cls({"0", "1"}), 1, 32), Port, Eol>>)

\* ^0[xX][0-9a-fA-F]{1,8}(:[0-9]{1,5})?$
re_hex ==
    Cat(<<Bol, Lit("0"), Cls({"x", "X"}), Rep(Cls(HexDigit), 1, 8), Port, Eol>>)

\* ^0[0-7]{1,11}(:[0-9]{1,5})?$
re_octal ==
    Cat(<<Bol, Lit("0"), Rep(Cls({"0", "1", "2", "3", "4", "5", "6", "7"}), 1, 11),
          Port, Eol>>)

\* The pieces of re_ipv6:
\*   [0-9a-fA-F]{1,4}    [0-9a-fA-F]{1,4}:    :[0-9a-fA-F]{1,4}
\*   (25[0-5]|(2[0-4]|1{0,1}[0-9]){0,1}[0-9])
H16 == Rep(Cls(HexDigit), 1, 4)
H16Colon == Cat(<<H16, Lit(":")>>)
ColonH16 == Cat(<<Lit(":"), H16>>)
V6Octet ==
    Alt(<<Cat(<<Lit("2"), Lit("5"), Cls({"0", "1", "2", "3", "4", "5"})>>),
          Cat(<<Opt(Alt(<<Cat(<<Lit("2"), Cls({"0", "1", "2", "3", "4"})>>),
                          Cat(<<Opt(Lit("1")), Cls(Digit)>>)>>)),
                Cls(Digit)>>)>>)
V6Quad == Cat(<<Rep(Cat(<<V6Octet, Lit(".")>>), 3, 3), V6Octet>>)

\* \[( the twelve alternatives of line 14 ); only the fe80 alternative holds
\* the closing bracket and the port, and nothing anchors the expression.
re_ipv6 ==
    Cat(<<Lit("["),
          Alt(<<Cat(<<Rep(H16Colon, 7, 7), H16>>),
                Cat(<<Rep(H16Colon, 1, 7), Lit(":")>>),
                Cat(<<Rep(H16Colon, 1, 6), Lit(":"), H16>>),
                Cat(<<Rep(H16Colon, 1, 5), Rep(ColonH16, 1, 2)>>),
                Cat(<<Rep(H16Colon, 1, 4), Rep(ColonH16, 1, 3)>>),
                Cat(<<Rep(H16Colon, 1, 3), Rep(ColonH16, 1, 4)>>),
                Cat(<<Rep(H16Colon, 1, 2), Rep(ColonH16, 1, 5)>>),
                Cat(<<H16, Lit(":"), Rep(ColonH16, 1, 6)>>),
                Cat(<<Lit(":"), Alt(<<Rep(ColonH16, 1, 7), Lit(":")>>)>>),
                Cat(<<Lit("f"), Lit("e"), Lit("8"), Lit("0"), Lit(":"),
                      Rep(Cat(<<Lit(":"), Rep(Cls(HexDigit), 0, 4)>>), 0, 4),
                      Lit("%"),
                      Rep(Cls(Digit \cup LowerAlpha \cup UpperAlpha), 1, Unbounded),
                      Lit("]"),
                      Port>>),
                Cat(<<Lit(":"), Lit(":"),
                      Opt(Cat(<<Lit("f"), Lit("f"), Lit("f"), Lit("f"),
                                Opt(Cat(<<Lit(":"), Rep(Lit("0"), 1, 4)>>)),
                                Lit(":")>>)),
                      V6Quad>>),
                Cat(<<Rep(H16Colon, 1, 4), Lit(":"), V6Quad>>)>>)>>)

\* check_numeric_host with the octet alternatives of re_ipv4 replaced by
\* \d{1,3}: an octet above 255 passes.
check_numeric_host_any_octet(req) ==
    LET host == HeaderGet(req, "host")
        loose == Cat(<<Bol,
                       Rep(Cat(<<Rep(Cls(Digit), 1, 3), Opt(Lit(".")), WordBoundary>>), 4, 4),
                       Port, Eol>>)
    IN  IF ~IsSome(host) THEN [ok |-> FALSE, value |-> FALSE]
        ELSE IF ~IsSome(to_str(Unwrap(host))) THEN [ok |-> FALSE, value |-> FALSE]
        ELSE LET text == Unwrap(to_str(Unwrap(host)))
             IN  [ok |-> TRUE,
                  value |-> \/ is_match(loose, text)
                            \/ is_match(re_ipv6, text)
                            \/ is_match(re_decimal, text)
                            \/ is_match(re_binary, text)
                            \/ is_match(re_hex, text)
                            \/ is_match(re_octal, text)]

\* check_numeric_host reporting a missing Host header as Ok(false).
check_numeric_host_missing_is_false(req) ==
    LET host == HeaderGet(req, "host")
    IN  IF ~IsSome(host) THEN [ok |-> TRUE, value |-> FALSE]
        ELSE IF ~IsSome(to_str(Unwrap(host))) THEN [ok |-> FALSE, value |-> FALSE]
        ELSE LET text == Unwrap(to_str(Unwrap(host)))
             IN  [ok |-> TRUE,
                  value |-> \/ is_match(re_ipv4, text)
                            \/ is_match(re_ipv6, text)
                            \/ is_match(re_decimal, text)
                            \/ is_match(re_binary, text)
                            \/ is_match(re_hex, text)
                            \/ is_match(re_octal, text)]

\* check_numeric_host: Err (ok = FALSE) when the Host header is missing or is
\* not readable as text, else Ok(value).
check_numeric_host(req) ==
    LET host == HeaderGet(req, "host")
    IN  IF ~IsSome(host) THEN [ok |-> FALSE, value |-> FALSE]
        ELSE IF ~IsSome(to_str(Unwrap(host))) THEN [ok |-> FALSE, value |-> FALSE]
        ELSE LET text == Unwrap(to_str(Unwrap(host)))
                 match_ipv4 == is_match(re_ipv4, text)
                 match_ipv6 == is_match(re_ipv6, text)
                 match_decimal == is_match(re_decimal, text)
                 match_binary == is_match(re_binary, text)
                 match_hex == is_match(re_hex, text)
                 match_octal == is_match(re_octal, text)
             IN  [ok |-> TRUE,
                  value |-> ~(/\ ~match_ipv4 /\ ~match_ipv6 /\ ~match_decimal
                              /\ ~match_binary /\ ~match_hex /\ ~match_octal)]

\* The handler writing a decision of score 0 when the host is not numeric.
NumericHostHandler_always_writes(ph) ==
    /\ plugin = "numeric-host"
    /\ pc = "idle"
    /\ LET checked == check_numeric_host(request)
       IN  /\ result' = IF checked.ok THEN "Ok" ELSE "Err"
           /\ decisions' = IF ~checked.ok THEN <<>>
                             ELSE IF checked.value THEN <<Restricted(1000000)>>
                             ELSE <<Restricted(0)>>
           /\ measured' = IF checked.ok THEN Some(checked.value) ELSE None
    /\ phase' = ph
    /\ pc' = "done"
    /\ UNCHANGED <<plugin, request, config, tags>>

NumericHostHandler(ph) ==
    /\ plugin = "numeric-host"
    /\ pc = "idle"
    /\ LET checked == check_numeric_host(request)
       IN  /\ result' = IF checked.ok THEN "Ok" ELSE "Err"
           /\ decisions' = IF checked.ok /\ checked.value
                             THEN <<Restricted(1000000)>>
                             ELSE <<>>
           /\ measured' = IF checked.ok THEN Some(checked.value) ELSE None
    /\ phase' = ph
    /\ pc' = "done"
    /\ UNCHANGED <<plugin, request, config, tags>>

NumericHostOnRequestDecision == NumericHostHandler("request")

NumericHostOnRequestBodyDecision == NumericHostHandler("request_body")

----------------------------------------------------------------------------
(* Host values of the numeric-host invocations, built from their grammar *)

RECURSIVE Join(_, _)
Join(parts, sep) ==
    IF Len(parts) = 0 THEN <<>>
    ELSE IF Len(parts) = 1 THEN parts[1]
    ELSE parts[1] \o sep \o Join(Tail(parts), sep)

Repeat(c, n) == [i \in 1..n |-> c]

DigitChar(d) == <<"0", "1", "2", "3", "4", "5", "6", "7", "8", "9">>[d + 1]

\* The decimal numeral of n, without leading zeros.
RECURSIVE Dec(_)
Dec(n) == IF n < 10 THEN <<DigitChar(n)>> ELSE Dec(n \div 10) \o <<DigitChar(n % 10)>>

Tuples(S, n) == [1..n -> S]

NoPort == <<>>
Ports == {NoPort, <<":", "8", "0", "8", "0">>}
WithPorts(hosts) == {h \o p : h \in hosts, p \in Ports}

MaxOctet == 300
MaxDottedParts == 5
MaxDecimalDigits == 12
MaxHexDigits == 10
MaxBinaryDigits == 34
MaxOctalDigits == 13
MaxLabels == 3

OctetSamples == {Dec(0), Dec(10), Dec(255)}

\* Four decimal octets in 0..255: every value in one place, samples in the rest.
DottedQuads ==
    {Join(q, <<".">>) : q \in Tuples(OctetSamples, 4)}
    \cup {Join([i \in 1..4 |-> IF i = k THEN Dec(n) ELSE <<"1">>], <<".">>) :
            k \in {1, 4}, n \in 0..255}

\* Dotted forms that are no address.
DottedWrongCount ==
    UNION {{Join(q, <<".">>) : q \in Tuples(OctetSamples, n)} :
            n \in (2..MaxDottedParts) \ {4}}

DottedEmptyOctet ==
    {Join([q EXCEPT ![k] = <<>>], <<".">>) :
        q \in Tuples(OctetSamples, 4), k \in 1..4}
    \cup {<<"3", ".", ".", ".", "3">>}

DottedOctetAbove ==
    {Join([i \in 1..4 |-> IF i = k THEN Dec(n) ELSE <<"1">>], <<".">>) :
        k \in {1, 4}, n \in 256..MaxOctet}
    \cup {Join([q EXCEPT ![k] = b], <<".">>) :
            q \in Tuples(OctetSamples, 4), k \in 1..4, b \in {Dec(256), Dec(999)}}

DottedMinus == {<<"-">> \o h : h \in {Join(q, <<".">>) : q \in Tuples(OctetSamples, 4)}}

\* Bracketed IPv6 literals: eight groups, or "::" standing for one or more
\* groups with pre groups before it and post groups after it.
HexGroups == {<<"1">>, <<"f", "e", "8", "0">>, <<"F", "F", "F", "F">>}
TailGroups == {<<"8">>, <<"0", "a", "B", "c">>}
Zones == {<<>>, <<"%", "e", "t", "h", "0">>}

V6Groups(first, rest, n) == [i \in 1..n |-> IF i = 1 THEN first ELSE rest]

V6Compressed(pre, post) ==
    {Join(V6Groups(g, r, pre), <<":">>) \o <<":", ":">> \o Join(V6Groups(r, r, post), <<":">>) :
        g \in HexGroups, r \in TailGroups}

V6Addresses ==
    {Join(V6Groups(g, r, 8), <<":">>) : g \in HexGroups, r \in TailGroups}
    \cup UNION {V6Compressed(pp[1], pp[2]) :
                  pp \in {qq \in (0..7) \X (0..7) : qq[1] + qq[2] <= 7}}

V6Literals == {<<"[">> \o a \o z \o <<"]">> : a \in V6Addresses, z \in Zones}

\* Bare numerals of n digits.
DecimalNumerals(n) ==
    {Repeat("9", n), <<"1">> \o Repeat("0", n - 1), <<"0">> \o Repeat("8", n - 1)}

HexNumerals(n) ==
    {<<"0", x>> \o d : x \in {"x", "X"},
                       d \in {Repeat("f", n), Repeat("0", n), <<"9">> \o Repeat("A", n - 1)}}

BinaryNumerals(n) ==
    {<<"0", b>> \o d : b \in {"b", "B"},
                       d \in {Repeat("1", n), Repeat("0", n), <<"1">> \o Repeat("0", n - 1)}}

\* n octal digits after the leading zero
OctalNumerals(n) ==
    {<<"0">> \o d : d \in {Repeat("7", n), Repeat("0", n), <<"1">> \o Repeat("6", n - 1)}}

NumeralsWithin(dec, hex, bin, oct) ==
    UNION {DecimalNumerals(n) : n \in 1..dec}
    \cup UNION {HexNumerals(n) : n \in 1..hex}
    \cup UNION {BinaryNumerals(n) : n \in 1..bin}
    \cup UNION {OctalNumerals(n) : n \in 1..oct}

BareNumerals ==
    NumeralsWithin(MaxDecimalDigits, MaxHexDigits, MaxBinaryDigits, MaxOctalDigits)

\* Hostnames made of labels: letters, digits and hyphens, a letter in at least
\* one label, and not a numeral as a whole.
Labels ==
    {<<"w", "w", "w">>, <<"c", "o", "m">>, <<"1", "2", "3">>, <<"1", "a">>,
     <<"0", "x", "f", "f">>, <<"0", "b", "1">>}

HasLetter(label) == \E i \in 1..Len(label) : label[i] \in LowerAlpha \cup UpperAlpha

LabelHostnames ==
    UNION {{Join(q, <<".">>) : q \in {t \in Tuples(Labels, n) : \E i \in 1..n : HasLetter(t[i])}} :
            n \in 1..MaxLabels}
    \ BareNumerals

HostValues ==
    WithPorts(DottedQuads \cup DottedWrongCount \cup DottedEmptyOctet
              \cup DottedOctetAbove \cup DottedMinus
              \cup V6Literals \cup BareNumerals \cup LabelHostnames)
    \cup {<<"w", "w", "w", Opaque>>, <<"1", "2", "7", ".", "0", ".", "0", ".", "1", ":", "6", "5", "5", "3", "5">>,
          <<"[", ":", ":", "]", ":", "4", "4", "3">>}

OtherHeaders == {<<>>, <<Header("accept", <<"*">>)>>}

HostRequests ==
    {[EmptyRequest EXCEPT !.headers = <<Header("host", h)>>] : h \in HostValues}
    \cup {[EmptyRequest EXCEPT !.headers = other] : other \in OtherHeaders}

InitNumericHost ==
    /\ plugin = "numeric-host"
    /\ request \in HostRequests
    /\ config = NoConfig
    /\ InitIdle

NextNumericHost == NumericHostOnRequestDecision \/ NumericHostOnRequestBodyDecision

SpecNumericHost == InitNumericHost /\ [][NextNumericHost]_vars

HostDone == plugin = "numeric-host" /\ pc = "done"
HostHeader == HeaderGet(request, "host")
HostIs(hosts) == IsSome(HostHeader) /\ Unwrap(HostHeader) \in hosts

\* The Host values the claim calls addresses and numerals, and those it calls
\* names and malformed dotted forms.
NotNumericHosts ==
    WithPorts(LabelHostnames \cup DottedWrongCount \cup DottedEmptyOctet
              \cup DottedOctetAbove \cup DottedMinus)

NumericHosts == WithPorts(DottedQuads \cup V6Literals \cup BareNumerals)

\* Numerals within the digit counts of the patterns: 10 decimal digits, 8
\* hexadecimal digits, 32 binary digits, 11 octal digits after the leading zero.
NumericHostsWithinDigits ==
    WithPorts(DottedQuads \cup V6Literals \cup NumeralsWithin(10, 8, 32, 11))

\* C3 as stated: true for every dotted quad of octets in 0..255, bracketed IPv6
\* literal and bare decimal, hexadecimal, binary or octal numeral, each with or
\* without a port; false for label hostnames and malformed dotted forms.
C3_Original ==
    HostDone =>
        /\ HostIs(NumericHosts) => measured = Some(TRUE)
        /\ HostIs(NotNumericHosts) => measured = Some(FALSE)

\* C3 as amended: the same, for the numerals of at most 10 decimal digits, 8
\* hexadecimal digits, 32 binary digits or 11 octal digits after the leading
\* zero.
C3_NumericHostClassified ==
    HostDone =>
        /\ HostIs(NumericHostsWithinDigits) => measured = Some(TRUE) /\ result = "Ok"
        /\ HostIs(NotNumericHosts) => measured = Some(FALSE) /\ result = "Ok"

\* A link-local literal with a zone identifier was classified numeric, in the
\* invocation that wrote the decision.
C3_Witness ==
    /\ HostDone
    /\ HostHeader = Some(<<"[", "f", "e", "8", "0", ":", ":", "8", "%", "e", "t", "h", "0", "]">>)
    /\ measured = Some(TRUE)
    /\ decisions = <<Restricted(1000000)>>

\* C4: without a Host header every invocation of the numeric-host detector, in
\* either phase, returns an error and writes no decision; no classification
\* result is produced.
C4_MissingHostFails ==
    (HostDone /\ ~IsSome(HostHeader)) =>
        /\ result = "Err"
        /\ decisions = <<>>
        /\ measured = None

\* The body phase ran on a request that has headers but no Host header.
C4_Witness ==
    /\ HostDone
    /\ phase = "request_body"
    /\ ~IsSome(HostHeader)
    /\ Len(request.headers) > 0
    /\ result = "Err"

----------------------------------------------------------------------------
(* The two detectors that read a mandatory field, together *)

InitMandatoryField == InitNumericHost \/ InitSizeLimit

NextMandatoryField == NextNumericHost \/ NextSizeLimit

SpecMandatoryField == InitMandatoryField /\ [][NextMandatoryField]_vars

MandatoryOk == plugin \in {"numeric-host", "size-limit"} /\ pc = "done" /\ result = "Ok"

\* The Content-Length values that are u64 numerals.
C5_NumeralLengths ==
    {<<"5">>, <<"0", "6">>, <<"1", "0">>, <<"1", "1">>, <<"+", "6">>,
     <<"1", "5", "7", "2", "8", "6", "4", "1">>}

C5_ContentLength == HeaderGet(request, "content-length")

\* C5 as stated: every successful invocation of the numeric-host and of the
\* size-limit detector writes exactly one decision.
C5_Original == MandatoryOk => Len(decisions) = 1

\* C5 as amended: a successful invocation writes at most one decision.  The
\* numeric-host detector writes one (score 1.0) when the Host value is numeric
\* and none when it is not; the size-limit detector writes one in the body
\* phase (score 0 when the size exceeds neither limit) and, in the headers
\* phase, one when Content-Length is present and a u64 numeral and none
\* otherwise.
C5_DecisionWritten ==
    MandatoryOk =>
        /\ (plugin = "numeric-host" /\ HostIs(NumericHostsWithinDigits))
              => decisions = <<Restricted(1000000)>>
        /\ (plugin = "numeric-host" /\ HostIs(NotNumericHosts)) => decisions = <<>>
        /\ (plugin = "size-limit" /\ phase = "request_body")
              => /\ Len(decisions) = 1
                 /\ (/\ request.body.size <= SizeThreshold("soft_limit", 15 * 1048576)
                     /\ request.body.size <= SizeThreshold("hard_limit", 50 * 1048576))
                       => decisions = <<Restricted(0)>>
        /\ (plugin = "size-limit" /\ phase = "request")
              => Len(decisions) =
                    (IF IsSome(C5_ContentLength) /\ Unwrap(C5_ContentLength) \in C5_NumeralLengths
                        THEN 1 ELSE 0)

\* A successful headers-phase invocation on a hostname wrote nothing.
C5_Witness ==
    /\ MandatoryOk
    /\ plugin = "numeric-host"
    /\ phase = "request"
    /\ HostHeader = Some(<<"w", "w", "w", ".", "c", "o", "m">>)
    /\ decisions = <<>>

----------------------------------------------------------------------------
(* rules/regex *)

\* get_sources pushing the body content without looking at body().received.
get_sources_body_always(value, req) ==
    LET keyword == UnwrapOr(value, VString("all"))
    IN  IF keyword.tag = "String" /\ keyword.s = "all"
        THEN [ok |-> TRUE,
              sources |-> req.uri.host \o <<req.uri.path>> \o req.uri.query
                          \o [i \in 1..Len(req.headers) |-> req.headers[i].value]
                          \o <<req.body.content>>,
              tags |-> <<>>]
        ELSE [ok |-> FALSE, sources |-> <<>>, tags |-> <<>>]

\* The sources one key of an object-form location adds (lines 33-65).
LocationSources(key, value, req) ==
    CASE key = "host" -> IF IsSome(req.uri.host) THEN <<Unwrap(req.uri.host)>> ELSE <<>>
      [] key = "path" -> <<req.uri.path>>
      [] key = "query" -> IF IsSome(req.uri.query) THEN <<Unwrap(req.uri.query)>> ELSE <<>>
      [] key = "header" ->
            IF value.tag = "Array"
            THEN LET found == [i \in 1..Len(value.items) |->
                                  IF value.items[i].tag = "String"
                                  THEN HeaderGet(req, value.items[i].s)
                                  ELSE None]
                     RECURSIVE Collect(_)
                     Collect(i) == IF i > Len(found) THEN <<>>
                                   ELSE found[i] \o Collect(i + 1)
                 IN  Collect(1)
            ELSE <<>>
      [] key = "body" -> IF req.body.received THEN <<req.body.content>> ELSE <<>>
      [] OTHER -> <<>>

LocationKeys == {"host", "path", "query", "header", "body"}

\* ObjectSources leaving the loop at the first unknown key: the keys after it
\* add nothing.
RECURSIVE ObjectSources_stops_at_unknown(_, _, _)
ObjectSources_stops_at_unknown(entries, i, req) ==
    IF i > Len(entries) THEN [sources |-> <<>>, tags |-> <<>>]
    ELSE IF entries[i].key \notin LocationKeys
        THEN [sources |-> <<>>, tags |-> <<"error">>]
    ELSE LET rest == ObjectSources_stops_at_unknown(entries, i + 1, req)
         IN  [sources |-> LocationSources(entries[i].key, entries[i].value, req)
                          \o rest.sources,
              tags |-> rest.tags]

RECURSIVE ObjectSources(_, _, _)
ObjectSources(entries, i, req) ==
    IF i > Len(entries) THEN [sources |-> <<>>, tags |-> <<>>]
    ELSE LET rest == ObjectSources(entries, i + 1, req)
         IN  [sources |-> LocationSources(entries[i].key, entries[i].value, req)
                          \o rest.sources,
              tags |-> (IF entries[i].key \in LocationKeys THEN <<>> ELSE <<"error">>)
                       \o rest.tags]

\* get_sources: Ok(sources) with the tags it appended on the way, or Err.
get_sources(value, req) ==
    LET location == UnwrapOr(value, VString("all"))
    IN  IF location.tag = "String"
        THEN IF location.s = "all"
             THEN [ok |-> TRUE,
                   sources |->
                       (IF IsSome(req.uri.host) THEN <<Unwrap(req.uri.host)>> ELSE <<>>)
                       \o <<req.uri.path>>
                       \o (IF IsSome(req.uri.query) THEN <<Unwrap(req.uri.query)>> ELSE <<>>)
                       \o [i \in 1..Len(req.headers) |-> req.headers[i].value]
                       \o (IF req.body.received THEN <<req.body.content>> ELSE <<>>),
                   tags |-> <<>>]
             ELSE [ok |-> FALSE, sources |-> <<>>, tags |-> <<>>]
        ELSE IF location.tag = "Object"
        THEN LET got == ObjectSources(location.entries, 1, req)
             IN  [ok |-> TRUE, sources |-> got.sources, tags |-> got.tags]
        ELSE [ok |-> FALSE, sources |-> <<>>, tags |-> <<>>]

\* get_patterns: Ok(patterns) when the value is an array of strings, else Err.
get_patterns(value) ==
    IF ~IsSome(value) THEN [ok |-> FALSE, patterns |-> <<>>]
    ELSE IF Unwrap(value).tag # "Array" THEN [ok |-> FALSE, patterns |-> <<>>]
    ELSE LET pattern_values == Unwrap(value).items
         IN  IF \E i \in 1..Len(pattern_values) : pattern_values[i].tag # "String"
             THEN [ok |-> FALSE, patterns |-> <<>>]
             ELSE [ok |-> TRUE,
                   patterns |-> [i \in 1..Len(pattern_values) |-> pattern_values[i].s]]

\* std::str::from_utf8(..).is_ok(): the bytes from position i on are
\* well-formed UTF-8.
Continuation(b) == b >= 128 /\ b <= 191

RECURSIVE is_utf8(_, _)
is_utf8(b, i) ==
    IF i > Len(b) THEN TRUE
    ELSE IF b[i] < 128 THEN is_utf8(b, i + 1)
    ELSE IF b[i] >= 194 /\ b[i] <= 223
        THEN i + 1 <= Len(b) /\ Continuation(b[i + 1]) /\ is_utf8(b, i + 2)
    ELSE IF b[i] >= 224 /\ b[i] <= 239
        THEN /\ i + 2 <= Len(b)
             /\ Continuation(b[i + 1]) /\ Continuation(b[i + 2])
             /\ (b[i] = 224 => b[i + 1] >= 160)
             /\ (b[i] = 237 => b[i + 1] <= 159)
             /\ is_utf8(b, i + 3)
    ELSE IF b[i] >= 240 /\ b[i] <= 244
        THEN /\ i + 3 <= Len(b)
             /\ Continuation(b[i + 1]) /\ Continuation(b[i + 2]) /\ Continuation(b[i + 3])
             /\ (b[i] = 240 => b[i + 1] >= 144)
             /\ (b[i] = 244 => b[i + 1] <= 143)
             /\ is_utf8(b, i + 4)
    ELSE FALSE

\* The patterns of the model are literals; "(" alone does not parse.
OpenParen == <<40>>
PatternParses(pattern) == pattern # OpenParen
PatternRegex(pattern) == Cat([i \in 1..Len(pattern) |-> Lit(pattern[i])])

\* RegexSetBuilder::new(patterns).build()
regex_set_build(patterns) ==
    IF \E i \in 1..Len(patterns) : ~PatternParses(patterns[i])
    THEN [ok |-> FALSE, set |-> <<>>]
    ELSE [ok |-> TRUE, set |-> [i \in 1..Len(patterns) |-> PatternRegex(patterns[i])]]

\* The number of places where the pattern (a literal) occurs.
Occurrences(pattern, haystack) ==
    Cardinality({i \in 0..Len(haystack) : Ends(pattern, haystack, i) # {}})

\* source_matches adding every occurrence of every pattern.
source_matches_occurrences(regex_set, source) ==
    IF is_utf8(source, 1)
    THEN LET RECURSIVE Total(_)
             Total(i) == IF i > Len(regex_set) THEN 0
                         ELSE Occurrences(regex_set[i], source) + Total(i + 1)
         IN  Total(1)
    ELSE 0

\* What one source adds to match_count (lines 91-96): the number of patterns
\* of the set that match it, and nothing when it is not UTF-8.
source_matches(regex_set, source) ==
    IF is_utf8(source, 1)
    THEN LET matches == {i \in 1..Len(regex_set) : is_match(regex_set[i], source)}
         IN  IF matches # {} THEN Cardinality(matches) ELSE 0
    ELSE 0

RECURSIVE count_matches(_, _, _, _)
count_matches(regex_set, sources, i, match_count) ==
    IF i > Len(sources) THEN match_count
    ELSE count_matches(regex_set, sources, i + 1,
                       match_count + source_matches(regex_set, sources[i]))

\* regex_handler (lines 85-114), shared by the two handlers of the plugin.
RegexHandler(ph) ==
    /\ plugin = "regex"
    /\ pc = "idle"
    /\ LET got == get_sources(get_config_value("location"), request)
           pats == get_patterns(get_config_value("patterns"))
           built == regex_set_build(pats.patterns)
           match_count == count_matches(built.set, got.sources, 1, 0)
           restrict == get_config_value("restrict")
           accept == get_config_value("accept")
           increment == IF IsSome(restrict) THEN as_f64(Unwrap(restrict))
                        ELSE IF IsSome(accept) THEN as_f64(Unwrap(accept))
                        ELSE None
       IN  /\ tags' = got.tags
           /\ IF ~got.ok
              THEN result' = "Err" /\ decisions' = <<>> /\ measured' = None
              ELSE IF ~pats.ok \/ ~built.ok
              THEN /\ result' = "Err"
                   /\ decisions' = <<>>
                   /\ measured' = Some([sources |-> got.sources, match_count |-> None])
              ELSE /\ measured' = Some([sources |-> got.sources,
                                        match_count |-> Some(match_count)])
                   /\ IF match_count = 0
                      THEN result' = "Ok" /\ decisions' = <<>>
                      ELSE IF IsSome(increment)
                      THEN /\ result' = "Ok"
                           /\ decisions' = <<Restricted(Unwrap(increment) * match_count)>>
                      ELSE result' = "Err" /\ decisions' = <<>>
    /\ phase' = ph
    /\ pc' = "done"
    /\ UNCHANGED <<plugin, request, config>>

RegexOnRequestDecision == RegexHandler("request")

RegexOnRequestBodyDecision == RegexHandler("request_body")

\* Inputs of the regex invocations.  Bytes: 97 "a", 98 "b", 104 "h", 47 "/",
\* 113 "q"; 195 169 is a two-byte character; 255 is never valid in UTF-8.
MaxHeaders == 2

HeaderValues == {<<97>>, <<98, 97, 98, 97>>, <<97, 255>>}
BodyContents == {<<195, 169, 97>>, <<97, 97, 98>>, <<195, 97>>}
NonTextValues == {<<97, 255>>, <<195, 97>>}

RegexHeaders ==
    UNION {{[i \in 1..n |-> Header(IF i = 1 THEN "x-foo" ELSE "x-bar", v[i])] :
              v \in Tuples(HeaderValues, n)} : n \in 0..MaxHeaders}

RegexRequests ==
    {[uri |-> [host |-> host, path |-> <<47, 97>>, query |-> query],
      headers |-> headers,
      body |-> [received |-> received, size |-> Len(content), content |-> content]] :
        host \in {None, Some(<<104, 97>>)},
        query \in {None, Some(<<113, 98>>)},
        headers \in RegexHeaders,
        received \in BOOLEAN,
        content \in BodyContents}

LocationValues ==
    {None, Some(VString("all")), Some(VString("body")), Some(VPosInt(1))}

PatternValues ==
    {None,
     Some(VString(<<97>>)),
     Some(VArray(<<VString(<<97>>)>>)),
     Some(VArray(<<VString(<<97>>), VString(<<98>>)>>)),
     Some(VArray(<<VString(<<98, 97>>), VString(<<97, 97>>)>>)),
     Some(VArray(<<VString(<<97>>), VString(OpenParen)>>)),
     Some(VArray(<<VString(<<97>>), VPosInt(1)>>))}

RestrictValues ==
    {None, Some(VFloat(300000)), Some(VFloat(600000)), Some(VFloat(0 - 500000)),
     Some(VString(<<>>))}

AcceptValues == {None, Some(VFloat(200000)), Some(VString(<<>>))}

RegexConfigs ==
    {[NoConfig EXCEPT !["location"] = l, !["patterns"] = p,
                      !["restrict"] = r, !["accept"] = a] :
        l \in LocationValues, p \in PatternValues,
        r \in RestrictValues, a \in AcceptValues}

InitRegex ==
    /\ plugin = "regex"
    /\ request \in RegexRequests
    /\ config \in RegexConfigs
    /\ InitIdle

NextRegex == RegexOnRequestDecision \/ RegexOnRequestBodyDecision

SpecRegex == InitRegex /\ [][NextRegex]_vars

RegexDone == plugin = "regex" /\ pc = "done"
RegexCounted == RegexDone /\ IsSome(measured) /\ IsSome(Unwrap(measured).match_count)
RegexCount == Unwrap(Unwrap(measured).match_count)

\* The configured increment as a number, when the key holds one.
IncrementOf(key) ==
    IF IsSome(config[key]) /\ Unwrap(config[key]).tag = "Float"
        THEN Some(Unwrap(config[key]).n)
        ELSE None

Clamp(x, lo, hi) == IF x < lo THEN lo ELSE IF x > hi THEN hi ELSE x

\* C6: every decision the regex detector emits has the score k * n clamped to
\* [0, 1], for the configured increment k and the match count n; no score
\* below 0 or above 1 reaches set_restricted.
C6_ScoreClamped ==
    (RegexCounted /\ Len(decisions) > 0) =>
        LET k == IF IsSome(config["restrict"]) THEN IncrementOf("restrict")
                 ELSE IncrementOf("accept")
        IN  \A i \in 1..Len(decisions) :
              /\ decisions[i].score >= 0
              /\ decisions[i].score <= 1000000
              /\ IsSome(k) => decisions[i].score = Clamp(Unwrap(k) * RegexCount, 0, 1000000)

\* C7: with `accept` configured, `restrict` not configured and at least one
\* match, the decision emitted has direction Accept; a Restrict decision is
\* written only in invocations whose configuration supplies `restrict`.
C7_AcceptDirection ==
    (RegexDone /\ result = "Ok") =>
        /\ (RegexCounted /\ RegexCount > 0
            /\ IsSome(config["accept"]) /\ ~IsSome(config["restrict"]))
              => (Len(decisions) = 1 /\ decisions[1].direction = "Accept")
        /\ \A i \in 1..Len(decisions) :
              decisions[i].direction = "Restrict" => IsSome(config["restrict"])

\* C8: an invocation of the regex detector returns Ok only when exactly one of
\* `restrict` and `accept` is configured.
C8_ExactlyOneIncrement ==
    (RegexDone /\ result = "Ok") =>
        (IsSome(config["restrict"]) # IsSome(config["accept"]))

RegexPatterns ==
    LET items == Unwrap(config["patterns"]).items
    IN  [i \in 1..Len(items) |-> items[i].s]

\* The pattern, a literal, is a substring of the source.
Occurs(pattern, source) ==
    \E o \in 1..(Len(source) - Len(pattern) + 1) :
        SubSeq(source, o, o + Len(pattern) - 1) = pattern

RECURSIVE C9_Total(_, _, _)
C9_Total(sources, patterns, i) ==
    IF i > Len(sources) THEN 0
    ELSE (IF sources[i] \in NonTextValues THEN 0
          ELSE Cardinality({k \in 1..Len(patterns) : Occurs(patterns[k], sources[i])}))
         + C9_Total(sources, patterns, i + 1)

\* C9: the measurement is the sum, over the resolved sources that are UTF-8
\* text, of the number of patterns of the set that occur in the source; a
\* source that is not text adds 0 and the invocation still measures.
C9_MatchCount ==
    RegexCounted =>
        RegexCount = C9_Total(Unwrap(measured).sources, RegexPatterns, 1)

\* Two patterns, a header holding each of them twice, a header that is not
\* text and a path holding one: 1 + 2 + 0.
C9_Witness ==
    /\ RegexCounted
    /\ RegexPatterns = <<<<97>>, <<98>>>>
    /\ Unwrap(measured).sources = <<<<47, 97>>, <<98, 97, 98, 97>>, <<97, 255>>>>
    /\ RegexCount = 3
    /\ result = "Ok"

LocationIsAll ==
    \/ config["location"] = None
    \/ (Unwrap(config["location"]).tag = "String" /\ Unwrap(config["location"]).s = "all")

\* C10: with location "all" or absent, the sources are the URI host if
\* present, the path, the query if present, every header value in order and
\* the body content exactly when the body is marked received; nothing fails
\* on a missing host and no tag is appended.
C10_AllSources ==
    (RegexDone /\ LocationIsAll) =>
        /\ IsSome(measured)
        /\ tags = <<>>
        /\ LET sources == Unwrap(measured).sources
               n == Len(request.headers)
               h == IF request.uri.host = None THEN 0 ELSE 1
               q == IF request.uri.query = None THEN 0 ELSE 1
               b == IF request.body.received THEN 1 ELSE 0
           IN  /\ Len(sources) = h + 1 + q + n + b
               /\ h = 1 => sources[1] = request.uri.host[1]
               /\ sources[h + 1] = request.uri.path
               /\ q = 1 => sources[h + 2] = request.uri.query[1]
               /\ \A i \in 1..n : sources[h + 1 + q + i] = request.headers[i].value
               /\ b = 1 => sources[h + 1 + q + n + 1] = request.body.content

\* No host, a query, two headers and a body that was not received although
\* it holds bytes: path, query and the two header values, nothing else.
C10_Witness ==
    /\ RegexDone
    /\ config["location"] = None
    /\ request.uri.host = None
    /\ ~request.body.received
    /\ request.body.content = <<97, 97, 98>>
    /\ IsSome(measured)
    /\ Unwrap(measured).sources = <<<<47, 97>>, <<113, 98>>, <<97>>, <<97, 255>>>>

----------------------------------------------------------------------------
(* rules/regex with an object-form location *)

MaxLocationKeys == 3

LocationEntry(key, value) == [key |-> key, value |-> value]

\* What the keys of a location object hold: a list of header names under
\* "header" ("x-baz" is in no request), or a string in its place; null under
\* the other keys.  "cookie" and "uri" are keys get_sources does not know.
HeaderNameLists ==
    {VArray(<<VString("x-baz"), VString("x-bar"), VString("x-foo")>>),
     VArray(<<VString("x-baz")>>),
     VString("x-foo")}

ObjectKeys == {"host", "path", "query", "header", "body", "cookie", "uri"}

KeyValues(key) == IF key = "header" THEN HeaderNameLists ELSE {VNull}

\* Objects of up to MaxLocationKeys distinct keys, in every iteration order.
LocationObjects ==
    UNION {UNION {{VObject([i \in 1..n |-> LocationEntry(keys[i], vals[i])]) :
                      vals \in {v \in [1..n -> HeaderNameLists \cup {VNull}] :
                                   \A i \in 1..n : v[i] \in KeyValues(keys[i])}} :
                  keys \in {k \in Tuples(ObjectKeys, n) :
                               \A i, j \in 1..n : i # j => k[i] # k[j]}} :
           n \in 0..MaxLocationKeys}

LocationHeaders ==
    UNION {{[i \in 1..n |-> Header(IF i = 1 THEN "x-foo" ELSE "x-bar", v[i])] :
              v \in Tuples({<<97>>, <<98, 255>>}, n)} : n \in 0..MaxHeaders}

LocationRequests ==
    {[uri |-> [host |-> host, path |-> <<47, 97>>, query |-> query],
      headers |-> headers,
      body |-> [received |-> received, size |-> 3, content |-> <<97, 97, 98>>]] :
        host \in {None, Some(<<104, 97>>)},
        query \in {None, Some(<<113, 98>>)},
        headers \in LocationHeaders,
        received \in BOOLEAN}

LocationConfigs ==
    {[NoConfig EXCEPT !["location"] = Some(l),
                      !["patterns"] = Some(VArray(<<VString(<<97>>), VString(<<98>>)>>)),
                      !["restrict"] = Some(VFloat(300000))] :
        l \in LocationObjects}

InitRegexLocation ==
    /\ plugin = "regex"
    /\ request \in LocationRequests
    /\ config \in LocationConfigs
    /\ InitIdle

SpecRegexLocation == InitRegexLocation /\ [][NextRegex]_vars

LocationEntries == Unwrap(config["location"]).entries

LocationIsObject ==
    IsSome(config["location"]) /\ Unwrap(config["location"]).tag = "Object"

IsKnownKey(entry) == entry.key \in {"host", "path", "query", "header", "body"}
IsUnknownKey(entry) == ~IsKnownKey(entry)

\* The values of the named headers the request holds, in the order named.
RECURSIVE NamedHeaderValues(_, _)
NamedHeaderValues(names, i) ==
    IF i > Len(names) THEN <<>>
    ELSE LET held == {j \in 1..Len(request.headers) :
                        request.headers[j].name = names[i].s}
         IN  (IF held = {} THEN <<>>
              ELSE <<request.headers[CHOOSE j \in held : \A k \in held : j <= k].value>>)
             \o NamedHeaderValues(names, i + 1)

\* C11: with an object-form location every unknown key appends one "error"
\* tag and nothing else: get_sources succeeds, the sources are those of the
\* same object without its unknown keys, and a named header the request does
\* not hold adds no source and no failure.
C11_UnknownKeysNonFatal ==
    (RegexDone /\ LocationIsObject) =>
        LET known == SelectSeq(LocationEntries, IsKnownKey)
            unknown == SelectSeq(LocationEntries, IsUnknownKey)
        IN  /\ IsSome(measured)
            /\ tags = [i \in 1..Len(unknown) |-> "error"]
            /\ Unwrap(measured).sources =
                  get_sources(Some(VObject(known)), request).sources
            /\ (Len(known) = 1 /\ known[1].key = "header" /\ known[1].value.tag = "Array")
                  => /\ Unwrap(measured).sources = NamedHeaderValues(known[1].value.items, 1)
                     /\ Len(Unwrap(measured).sources) = 0 => result = "Ok" /\ decisions = <<>>

\* A host before an unknown key and a path after it: one tag, both sources.
C11_Witness ==
    /\ RegexDone
    /\ LocationIsObject
    /\ Len(LocationEntries) = 3
    /\ LocationEntries[1].key = "host"
    /\ LocationEntries[2].key = "cookie"
    /\ LocationEntries[3].key = "path"
    /\ tags = <<"error">>
    /\ IsSome(measured)
    /\ Unwrap(measured).sources = <<<<104, 97>>, <<47, 97>>>>
    /\ result = "Ok"

----------------------------------------------------------------------------
(* The four plugins together: the host loads one of them and runs one of   *)
(* its handlers on a request.                                              *)

Init ==
    \/ InitSizeLimit \/ InitLongContentType \/ InitNumericHost
    \/ InitRegex \/ InitRegexLocation

Next == NextSizeLimit \/ NextLongContentType \/ NextNumericHost \/ NextRegex

Spec == Init /\ [][Next]_vars

====
